---- MODULE Spec2Model ----
(***************************************************************************)
(* Model of the command store of src/main.py: a Flask application whose    *)
(* only state is the JSON file commands_data.json.  Every request handler  *)
(* loads the whole file, works on its private copy and writes the whole    *)
(* file back; handlers of concurrent requests interleave at the file       *)
(* accesses (there is no lock in the source).                              *)
(***************************************************************************)
EXTENDS Integers, Sequences, FiniteSets, TLC

\* Bounds of the model.
MaxCommands == 4
MaxRaceCommands == 2
MaxWorkers == 2
MaxCount == 2
MaxTime == 2

\* Program constant (src/main.py:11).
MAX_HISTORY_SIZE == 3

Ids == 1..MaxCommands
Workers == 1..MaxWorkers

\* The command types of the specification's enumeration, and the values of
\* the "command" field the model submits ("teleport" is outside the enumeration).
CommandTypes == {"click", "input", "scroll", "wait"}
CommandNames == {"click", "teleport"}

VARIABLES
    file,      \* content of commands_data.json
    pc,        \* pc[w]: position of worker w's handler: "idle", "save", "write"
    local,     \* local[w]: the handler's private variables
    nextId,    \* number of ids generated so far (uuid4 never repeats)
    resp,      \* the last response produced by a handler
    added,     \* ids whose add_command was answered 201
    moved,     \* ids whose move was answered with success
    now        \* the time datetime.now() returns

vars == <<file, pc, local, nextId, resp, added, moved, now>>

----------------------------------------------------------------------------
\* Data

EmptyData == [new_commands |-> <<>>, history |-> <<>>]

\* The value of a field that a command does not have (yet).
NoTime == -1

NoCommand == [id |-> 0, command |-> "", time_created |-> NoTime, time_started |-> NoTime]

NoOutcome == [code |-> 0, error |-> "", data |-> EmptyData, cmd |-> NoCommand, ids |-> <<>>]

IdleLocal == [op |-> "none", out |-> NoOutcome]

NoResp == [op |-> "none", code |-> 0, error |-> "", source |-> "", result |-> <<>>, id |-> 0]

Restarted == [NoResp EXCEPT !.op = "restart"]

AbsentFile == [kind |-> "absent", data |-> EmptyData]

\* Python list helpers.
IdsOf(s) == {s[i].id : i \in 1..Len(s)}

IdSeq(s) == [i \in 1..Len(s) |-> s[i].id]

\* s[:n] of Python, for any integer n.
SliceTo(s, n) ==
    IF n >= 0
    THEN SubSeq(s, 1, IF n < Len(s) THEN n ELSE Len(s))
    ELSE SubSeq(s, 1, IF Len(s) + n > 0 THEN Len(s) + n ELSE 0)

\* s[k:] of Python, for any integer k.
SliceFrom(s, k) ==
    IF k >= 0
    THEN SubSeq(s, (IF k < Len(s) THEN k ELSE Len(s)) + 1, Len(s))
    ELSE SubSeq(s, (IF Len(s) + k > 0 THEN Len(s) + k ELSE 0) + 1, Len(s))

\* list.insert(0, x)
Insert0(s, x) == <<x>> \o s

\* load_commands(): the parsed file, or the empty store when the file is
\* missing or is not valid JSON.
load_commands ==
    IF file.kind = "json" THEN file.data ELSE EmptyData

\* Number of serialized commands, the measure of the length of the file.
Size(d) == Len(d.new_commands) + Len(d.history)

\* The files that closing a write of d can leave.  open(..., 'w') truncated
\* the file; the buffered text is written from offset 0 at close.  If another
\* writer's text landed after this writer's truncation, a shorter text leaves
\* the other's tail behind it, which is not valid JSON.  Texts of as many
\* commands can be of either length (the command strings differ in length).
Written(d) ==
    IF file.kind \in {"truncated", "absent"}
    THEN {[kind |-> "json", data |-> d]}
    ELSE IF Size(d) > Size(file.data)
    THEN {[kind |-> "json", data |-> d]}
    ELSE IF Size(d) < Size(file.data)
    THEN {[kind |-> "garbled", data |-> file.data]}
    ELSE {[kind |-> "json", data |-> d], [kind |-> "garbled", data |-> file.data]}

Quiescent == \A w \in Workers : pc[w] = "idle"

PendingList == load_commands.new_commands
HistoryList == load_commands.history
PendingIds == IdsOf(PendingList)
HistoryIds == IdsOf(HistoryList)

----------------------------------------------------------------------------
\* Initial state: no data file, no request in progress.

Init ==
    /\ file = AbsentFile
    /\ pc = [w \in Workers |-> "idle"]
    /\ local = [w \in Workers |-> IdleLocal]
    /\ nextId = 0
    /\ resp = NoResp
    /\ added = {}
    /\ moved = {}
    /\ now = 0

----------------------------------------------------------------------------
\* Request inputs

\* Bodies of POST /add_command; json is FALSE for a body that is empty ({}).
AddBodies ==
    {[json |-> FALSE, command |-> "", params |-> "dict"],
     [json |-> TRUE, command |-> "", params |-> "dict"]}
        \cup [json : {TRUE}, command : CommandNames, params : {"dict", "list"}]

MoveBodies == {[json |-> FALSE, id |-> 0]} \cup [json : {TRUE}, id : 0..MaxCommands]

Counts ==
    {[kind |-> k, n |-> 0] : k \in {"all", "ALL", "bad"}}
        \cup {[kind |-> "int", n |-> k] : k \in -1..MaxCount}

TypeFilters == CommandNames \cup {""}

All == [kind |-> "all", n |-> 0]

One == [kind |-> "int", n |-> 1]

Bad == [kind |-> "bad", n |-> 0]

\* The requests the model sends to GET /read_first and GET /select_last: the
\* default one (the first command), a listing of each source, a filtered
\* listing, and one request for each rejection.  The properties range over
\* every count and type filter.
ReadRequests ==
    [count : {One, All}, source : {"new_commands", "history"}, command_type : {""}]
        \cup {[count |-> All, source |-> "new_commands", command_type |-> "click"],
               [count |-> Bad, source |-> "new_commands", command_type |-> ""],
               [count |-> One, source |-> "other", command_type |-> ""]}

SelectRequests == {All, One, Bad}

Batches == {<<>>} \cup {<<i>> : i \in Ids} \cup {<<pair[1], pair[2]>> : pair \in {q \in Ids \X Ids : q[1] # q[2]}}

Error(op, code, error) ==
    [op |-> op, code |-> code, error |-> error, source |-> "", result |-> <<>>, id |-> 0]

----------------------------------------------------------------------------
\* What a handler computes between load_commands() and save_commands(data):
\* the status code, the error code, the data it is about to save, the
\* command and the ids it is about.

Rejected(code, error) ==
    [code |-> code, error |-> error, data |-> EmptyData, cmd |-> NoCommand, ids |-> <<>>]

\* Mutant: data['new_commands'].insert(0, new_command)
PrependCommand(data, new_command) ==
    [data EXCEPT !.new_commands = <<new_command>> \o @]

\* data['new_commands'].append(new_command)
AppendCommand(data, new_command) ==
    [data EXCEPT !.new_commands = Append(@, new_command)]

\* The validation of the body of POST /add_command: the error code, or "".
AddError(body) ==
    IF ~body.json THEN "INVALID_REQUEST"
    ELSE IF body.command = "" THEN "MISSING_COMMAND"
    ELSE IF body.params # "dict" THEN "INVALID_PARAMS"
    ELSE ""

\* POST /add_command
add_command(body) ==
    IF AddError(body) # ""
    THEN Rejected(400, AddError(body))
    ELSE LET new_command == [id |-> nextId + 1, command |-> body.command,
                             time_created |-> now, time_started |-> NoTime]
         IN [code |-> 201, error |-> "",
             data |-> AppendCommand(load_commands, new_command),
             cmd |-> new_command, ids |-> <<>>]

\* The validation of the body of POST /move_to_history.
MoveError(body) ==
    IF ~body.json THEN "INVALID_REQUEST"
    ELSE IF body.id = 0 THEN "MISSING_COMMAND_ID"
    ELSE ""

\* Mutant: the loop appends every command to remaining_new_commands.
RemainingAll(new_commands, command_id) == new_commands

\* The loop over data['new_commands']: the commands that do not have the id.
Remaining(new_commands, command_id) ==
    LET Other(cmd) == cmd.id # command_id IN SelectSeq(new_commands, Other)

\* Mutant: the command is looked up in the history as well.
CommandToMoveAnywhere(new_commands, command_id) ==
    LET Same(cmd) == cmd.id = command_id
        found == SelectSeq(new_commands \o load_commands.history, Same)
    IN IF found = <<>> THEN NoCommand
       ELSE [found[Len(found)] EXCEPT !.time_started = now]

\* The loop over data['new_commands']: the last command that has the id,
\* with its time_started set.
CommandToMove(new_commands, command_id) ==
    LET Same(cmd) == cmd.id = command_id
        found == SelectSeq(new_commands, Same)
    IN IF found = <<>> THEN NoCommand
       ELSE [found[Len(found)] EXCEPT !.time_started = now]

\* Mutant: the history is not cut to MAX_HISTORY_SIZE.
PushHistoryUncut(history, command_to_move) == Insert0(history, command_to_move)

\* Mutant: the command is appended and the first MAX_HISTORY_SIZE are kept.
AppendHistory(history, command_to_move) ==
    SliceTo(Append(history, command_to_move), MAX_HISTORY_SIZE)

\* Mutant: the history is cut one entry short of MAX_HISTORY_SIZE.
PushHistoryShort(history, command_to_move) ==
    SliceTo(Insert0(history, command_to_move), MAX_HISTORY_SIZE - 1)

\* data['history'].insert(0, command_to_move); data['history'][:MAX_HISTORY_SIZE]
PushHistory(history, command_to_move) ==
    SliceTo(Insert0(history, command_to_move), MAX_HISTORY_SIZE)

\* POST /move_to_history
move_to_history(body) ==
    IF MoveError(body) # ""
    THEN Rejected(400, MoveError(body))
    ELSE LET data == load_commands
             command_to_move == CommandToMove(data.new_commands, body.id)
         IN IF command_to_move = NoCommand
            THEN [Rejected(404, "COMMAND_NOT_FOUND") EXCEPT !.ids = <<body.id>>]
            ELSE [code |-> 200, error |-> "",
                  data |-> [new_commands |-> Remaining(data.new_commands, body.id),
                            history |-> PushHistory(data.history, command_to_move)],
                  cmd |-> command_to_move, ids |-> <<body.id>>]

\* Mutant: list.pop(0) in place of list.remove(x)
RemoveHead(s, x) == IF s = <<>> THEN s ELSE Tail(s)

\* list.remove(x): the list without the first element equal to x
RemoveFirst(s, x) ==
    IF \E i \in 1..Len(s) : s[i] = x
    THEN LET i == CHOOSE i \in 1..Len(s) : s[i] = x /\ \A j \in 1..(i - 1) : s[j] # x
         IN SubSeq(s, 1, i - 1) \o SubSeq(s, i + 1, Len(s))
    ELSE s

\* The loop over command_ids of move_commands_to_history.
RECURSIVE MoveEach(_, _)
MoveEach(data, command_ids) ==
    IF command_ids = <<>> THEN data
    ELSE LET Same(cmd) == cmd.id = Head(command_ids)
             found == SelectSeq(data.new_commands, Same)
         IN IF found = <<>>
            THEN MoveEach(data, Tail(command_ids))
            ELSE MoveEach([new_commands |-> RemoveFirst(data.new_commands, found[1]),
                           history |-> Append(data.history,
                                              [found[1] EXCEPT !.time_started = now])],
                          Tail(command_ids))

\* Mutant: the history is cut only once it is two entries too long.
TrimHistoryLate(history) ==
    IF Len(history) > MAX_HISTORY_SIZE + 1
    THEN SliceFrom(history, 0 - MAX_HISTORY_SIZE)
    ELSE history

\* data['history'][-MAX_HISTORY_SIZE:] when the history is too long
TrimHistory(history) ==
    IF Len(history) > MAX_HISTORY_SIZE
    THEN SliceFrom(history, 0 - MAX_HISTORY_SIZE)
    ELSE history

\* move_commands_to_history(command_ids), a function that no route calls
move_commands_to_history(command_ids) ==
    LET data == load_commands
        InNew(id) == id \in IdsOf(data.new_commands)
    IN [code |-> 0, error |-> "",
        data |-> [MoveEach(data, command_ids) EXCEPT !.history = TrimHistory(@)],
        cmd |-> NoCommand, ids |-> SelectSeq(command_ids, InNew)]

\* Mutant: commands[-count:] in place of commands[:count]
LastCommands(commands, count) ==
    IF count.kind \in {"all", "ALL"} \/ count.n = 0 THEN commands
    ELSE SliceFrom(commands, 0 - count.n)

\* commands[:count], or all of them for count 'all'
FirstCommands(commands, count) ==
    IF count.kind \in {"all", "ALL"} THEN commands ELSE SliceTo(commands, count.n)

\* [cmd for cmd in commands if cmd.get('command') == command_type]
OfType(commands, command_type) ==
    LET Same(cmd) == cmd.command = command_type
    IN IF command_type = "" THEN commands ELSE SelectSeq(commands, Same)

\* GET /read_first: the response
read_first(count, source, command_type) ==
    IF source \notin {"new_commands", "history"}
    THEN Error("read_first", 400, "Invalid source")
    ELSE IF count.kind = "bad"
    THEN [Error("read_first", 400, "Count must be a number") EXCEPT !.source = source]
    ELSE [op |-> "read_first", code |-> 200, error |-> "", source |-> source,
          result |-> FirstCommands(OfType(load_commands[source], command_type), count),
          id |-> 0]

\* read_first_commands(count), a function that no route calls, for a count
\* that is 'all' or that int() accepts
read_first_commands(count) ==
    LET new_commands == load_commands.new_commands
    IN IF count.kind = "all" THEN new_commands ELSE SliceTo(new_commands, count.n)

\* select_last_commands(count)
select_last_commands(count) ==
    LET new_commands == load_commands.new_commands
    IN IF count.kind = "all" THEN new_commands
       ELSE IF count.n <= Len(new_commands)
            THEN SliceFrom(new_commands, 0 - count.n)
            ELSE new_commands

\* GET /select_last: the response
select_last(count) ==
    IF count.kind \in {"bad", "ALL"}
    THEN Error("select_last", 400, "Invalid count parameter")
    ELSE [op |-> "select_last", code |-> 200, error |-> "", source |-> "new_commands",
          result |-> select_last_commands(count), id |-> 0]

----------------------------------------------------------------------------
\* save_commands(data) and the responses

\* Mutant: only the history is written.
SaveHistoryOnly(data) == [kind |-> "json", data |-> [data EXCEPT !.new_commands = <<>>]]

\* The file a save of data leaves when nothing else touches the file.
save_commands(data) == [kind |-> "json", data |-> data]

\* The file an interrupted save leaves: open(DATA_FILE, 'w') failed and the
\* file is as it was, or the write failed after open truncated the file.
\* The exception is caught and printed, and the handler goes on.
FailedSave == {file, [kind |-> "truncated", data |-> EmptyData]}

\* jsonify(...) of a handler that went through save_commands, or was rejected.
Response(op, out) ==
    IF out.code >= 400
    THEN [Error(op, out.code, out.error) EXCEPT
            !.id = IF out.ids = <<>> THEN 0 ELSE out.ids[1]]
    ELSE [op |-> op, code |-> out.code, error |-> "", source |-> "",
          result |-> IF out.cmd = NoCommand THEN <<>> ELSE <<out.cmd>>,
          id |-> out.cmd.id]

\* The requests answered with success so far.
Acknowledge(op, out) ==
    /\ resp' = Response(op, out)
    /\ added' = IF op = "add_command" THEN added \cup {out.cmd.id} ELSE added
    /\ moved' = IF op = "add_command" THEN moved
                ELSE moved \cup {out.ids[i] : i \in 1..Len(out.ids)}

----------------------------------------------------------------------------
\* Calls served one at a time: the whole handler is one step.

Call(op, out, files) ==
    /\ Quiescent
    /\ IF out.code >= 400
       THEN /\ resp' = Response(op, out)
            /\ UNCHANGED <<file, pc, local, nextId, added, moved, now>>
       ELSE /\ op = "add_command" => nextId < MaxCommands
            /\ file' \in files
            /\ Acknowledge(op, out)
            /\ nextId' = IF op = "add_command" THEN nextId + 1 ELSE nextId
            /\ UNCHANGED <<pc, local, now>>

\* Mutant: the read takes the commands it returns out of the pending list.
ReadPops(response) ==
    /\ resp' = response
    /\ file' = IF file.kind = "json" /\ response.source = "new_commands"
               THEN [file EXCEPT !.data.new_commands =
                       LET Kept(cmd) == cmd.id \notin IdsOf(response.result)
                       IN SelectSeq(@, Kept)]
               ELSE file
    /\ UNCHANGED <<pc, local, nextId, added, moved, now>>

\* GET /read_first and GET /select_last: load_commands(), then the response;
\* neither handler calls save_commands.
Read(response) ==
    /\ resp' = response
    /\ UNCHANGED <<file, pc, local, nextId, added, moved, now>>

SeqAddCommand ==
    \E body \in AddBodies :
        Call("add_command", add_command(body), {save_commands(add_command(body).data)})

SeqMoveToHistory ==
    \E body \in MoveBodies :
        Call("move_to_history", move_to_history(body),
             {save_commands(move_to_history(body).data)})

SeqMoveCommandsToHistory ==
    \E command_ids \in Batches :
        Call("move_commands_to_history", move_commands_to_history(command_ids),
             {save_commands(move_commands_to_history(command_ids).data)})

SeqReadFirst ==
    \E q \in ReadRequests :
        Quiescent /\ Read(read_first(q.count, q.source, q.command_type))

SeqSelectLast ==
    \E count \in SelectRequests : Quiescent /\ Read(select_last(count))

\* The process is stopped and started again between two calls; it keeps
\* nothing in memory between requests, the file is its whole state.
Restart ==
    /\ Quiescent
    /\ resp' = Restarted
    /\ UNCHANGED <<file, pc, local, nextId, added, moved, now>>

SeqNext ==
    \/ SeqAddCommand
    \/ SeqMoveToHistory
    \/ SeqMoveCommandsToHistory
    \/ SeqReadFirst
    \/ SeqSelectLast
    \/ Restart

SeqSpec == Init /\ [][SeqNext]_vars

----------------------------------------------------------------------------
\* Concurrent requests: each worker runs one handler; handlers interleave at
\* their accesses to the file (load, open for writing, write and close).

\* Mutant: the handler loads and saves the data before it validates the body.
BeginSavesFirst(w, op, out) ==
    /\ pc[w] = "idle"
    /\ op = "add_command" => nextId < MaxRaceCommands
    /\ IF out.code >= 400
       THEN /\ resp' = Response(op, out)
            /\ local' = [local EXCEPT ![w] =
                           [op |-> op, out |-> [out EXCEPT !.data = load_commands]]]
       ELSE /\ resp' = resp
            /\ local' = [local EXCEPT ![w] = [op |-> op, out |-> out]]
    /\ pc' = [pc EXCEPT ![w] = "save"]
    /\ nextId' = IF op = "add_command" THEN nextId + 1 ELSE nextId
    /\ UNCHANGED <<file, added, moved, now>>

\* The handler up to its call of save_commands, or to its error response.
Begin(w, op, out) ==
    /\ pc[w] = "idle"
    /\ IF out.code >= 400
       THEN /\ resp' = Response(op, out)
            /\ UNCHANGED <<file, pc, local, nextId, added, moved, now>>
       ELSE /\ op = "add_command" => nextId < MaxRaceCommands
            /\ local' = [local EXCEPT ![w] = [op |-> op, out |-> out]]
            /\ pc' = [pc EXCEPT ![w] = "save"]
            /\ nextId' = IF op = "add_command" THEN nextId + 1 ELSE nextId
            /\ UNCHANGED <<file, resp, added, moved, now>>

\* open(DATA_FILE, 'w')
SaveOpen(w) ==
    /\ pc[w] = "save"
    /\ file' = [kind |-> "truncated", data |-> EmptyData]
    /\ pc' = [pc EXCEPT ![w] = "write"]
    /\ UNCHANGED <<local, nextId, resp, added, moved, now>>

\* json.dump and the close of the file, then the response
SaveWrite(w) ==
    /\ pc[w] = "write"
    /\ file' \in Written(local[w].out.data)
    /\ Acknowledge(local[w].op, local[w].out)
    /\ pc' = [pc EXCEPT ![w] = "idle"]
    /\ local' = [local EXCEPT ![w] = IdleLocal]
    /\ UNCHANGED <<nextId, now>>

AddCommand ==
    \E w \in Workers, body \in AddBodies : Begin(w, "add_command", add_command(body))

MoveToHistory ==
    \E w \in Workers, body \in MoveBodies :
        Begin(w, "move_to_history", move_to_history(body))

ReadFirst ==
    \E q \in ReadRequests :
        /\ \E w \in Workers : pc[w] = "idle"
        /\ Read(read_first(q.count, q.source, q.command_type))

SelectLast ==
    \E count \in SelectRequests :
        /\ \E w \in Workers : pc[w] = "idle"
        /\ Read(select_last(count))

OpenFile == \E w \in Workers : SaveOpen(w)

WriteFile == \E w \in Workers : SaveWrite(w)

Next ==
    \/ AddCommand
    \/ MoveToHistory
    \/ ReadFirst
    \/ SelectLast
    \/ OpenFile
    \/ WriteFile

Spec == Init /\ [][Next]_vars

\* Calls served one at a time on a disk whose writes can fail: save_commands
\* catches the exception and the handler answers as if the data were saved.
FailedAddCommand ==
    \E body \in AddBodies :
        /\ add_command(body).code < 400
        /\ Call("add_command", add_command(body), FailedSave)

FailedMoveToHistory ==
    \E body \in MoveBodies :
        /\ move_to_history(body).code < 400
        /\ Call("move_to_history", move_to_history(body), FailedSave)

FaultNext ==
    \/ SeqAddCommand
    \/ SeqMoveToHistory
    \/ SeqReadFirst
    \/ SeqSelectLast
    \/ FailedAddCommand
    \/ FailedMoveToHistory

FaultSpec == Init /\ [][FaultNext]_vars

\* Calls served one at a time while time passes between them: the clock
\* that datetime.now() reads advances; no code runs when it does.
Tick ==
    /\ Quiescent
    /\ now < MaxTime
    /\ now' = now + 1
    /\ UNCHANGED <<file, pc, local, nextId, resp, added, moved>>

\* POST /add_command with a body that is accepted.
TimedAddCommand ==
    LET body == [json |-> TRUE, command |-> "click", params |-> "dict"]
    IN Call("add_command", add_command(body), {save_commands(add_command(body).data)})

TimedNext ==
    \/ TimedAddCommand
    \/ SeqMoveToHistory
    \/ SeqMoveCommandsToHistory
    \/ SeqReadFirst
    \/ Tick

TimedSpec == Init /\ [][TimedNext]_vars

----------------------------------------------------------------------------
\* Vocabulary of the properties

\* The retention window of completed commands that the specification states
\* (3600 s), in ticks of the model's clock: a command is within the window
\* at ages 0 and 1 and past it from age 2 on.
CompletedRetention == 1

\* The age of a command of the history at time t: time since it was moved.
Age(cmd, t) == t - cmd.time_started

\* The answer to a listing of the whole history.
ListedHistory == read_first(All, "history", "").result

\* The counts that a read accepts.
GoodCounts == Counts \ {Bad}

\* The commands of s are in the order of their creation.
Increasing(s) == \A i, j \in 1..Len(s) : i < j => s[i].id < s[j].id

\* r is what a read of the pending list answered.
IsPendingRead(r) ==
    /\ r.op \in {"read_first", "select_last"}
    /\ r.code = 200
    /\ r.source = "new_commands"

\* The step answers a request with r (a new response).
Answers(r) == resp' = r /\ resp' # resp

\* The ids of s without id, in the order of s.
IdsWithout(s, id) == LET Other(x) == x # id IN SelectSeq(IdSeq(s), Other)

----------------------------------------------------------------------------
\* C1: requests are serialized, so no update is lost: once every request has
\* been answered and the file is whole, the pending list holds exactly the
\* commands whose add_command was answered with success and whose move was
\* not (after two concurrent enqueues both commands are pending).
C1_NoLostUpdate ==
    (Quiescent /\ file.kind = "json") => PendingIds = added \ moved

\* C2 (as claimed): a command never leaves the history for the pending list,
\* and no step takes a command from the pending list straight to the history.
C2_AllowedEdgesOnly ==
    [][/\ \A id \in HistoryIds : id \notin PendingIds'
       /\ \A id \in PendingIds : id \notin HistoryIds']_vars

\* C2 (amended): a command enters the history only from the pending list, in
\* one step, by a move that names its id; a command in the history, or one
\* whose move was answered with success, is never in the pending list again.
C2_PendingToHistoryOnly ==
    [][/\ \A id \in HistoryIds \cup moved : id \notin PendingIds'
       /\ \A id \in HistoryIds' \ HistoryIds :
            /\ id \in PendingIds
            /\ id \in moved'
            /\ resp'.op \in {"move_to_history", "move_commands_to_history"}]_vars

C2_Witness ==
    /\ resp.op = "move_to_history"
    /\ resp.code = 200
    /\ resp.id \in HistoryIds
    /\ PendingIds # {}

C4_NeverGivenTwice ==
    [][(/\ resp.op = "read_first" /\ IsPendingRead(resp)
        /\ resp'.op = "read_first" /\ IsPendingRead(resp')
        /\ resp' # resp)
       => IdsOf(resp.result) \cap IdsOf(resp'.result) = {}]_vars

\* C4 (amended): read_first of the pending list without a type filter answers
\* with the earliest-enqueued commands that are still pending (for count 1,
\* the earliest one) and changes nothing: the command stays pending.
C4_ReadsEarliestAndKeeps ==
    /\ [](\A count \in GoodCounts :
            LET result == read_first(count, "new_commands", "").result
            IN /\ \A i \in 1..Len(result) :
                    /\ result[i].id \in PendingIds
                    /\ \A id \in PendingIds \ IdsOf(result) : result[i].id < id
               /\ (count = One /\ PendingIds # {}) => Len(result) = 1)
    /\ [][\A count \in GoodCounts :
            Answers(read_first(count, "new_commands", ""))
            => /\ file' = file
               /\ read_first(count, "new_commands", "")' = resp']_vars

C4_Witness ==
    /\ resp.op = "read_first"
    /\ IsPendingRead(resp)
    /\ Len(resp.result) = 1
    /\ Len(PendingList) >= 2
    /\ resp.result[1] = PendingList[1]
    /\ \E w \in Workers : pc[w] # "idle"

\* C5 (as claimed): an enqueue with a command type outside the enumeration is
\* rejected and leaves the store unchanged: no such command is ever stored or
\* answered with success.
C5_InvalidTypeRejected ==
    /\ \A i \in 1..Len(PendingList) : PendingList[i].command \in CommandTypes
    /\ (resp.op = "add_command" /\ resp.code = 201)
         => resp.result[1].command \in CommandTypes

\* C5 (amended): an add_command that is rejected (no body, no command field,
\* params that are not an object) is answered 400 and changes neither the
\* file nor any handler.
C5_RejectedUnchanged ==
    [][(resp'.op = "add_command" /\ resp'.code >= 400 /\ resp' # resp)
       => /\ resp'.code = 400
          /\ UNCHANGED <<file, pc, local, nextId, added, moved>>]_vars

C5_Witness ==
    /\ resp.op = "add_command"
    /\ resp.code = 400
    /\ resp.error = "INVALID_PARAMS"
    /\ PendingIds # {}

C7_ServedAfterFailedWrite ==
    LET listed == IdsOf(read_first(All, "new_commands", "").result)
    IN /\ \A id \in added \ moved : id \in listed
       /\ \A id \in moved : id \notin listed

\* C8: a command whose add_command was answered with success stays in the
\* pending list until a move that names its id is answered with success;
\* nothing else removes it.
C8_PendingUntilMoved ==
    /\ [](\A id \in added \ moved : id \in PendingIds)
    /\ [][\A id \in PendingIds \ PendingIds' :
            /\ id \in moved'
            /\ resp'.op \in {"move_to_history", "move_commands_to_history"}]_vars

C8_Witness ==
    /\ added \ moved # {}
    /\ moved # {}
    /\ \E id \in added \ moved : \E m \in moved : id < m
    /\ resp.op = "move_to_history"
    /\ resp.code = 200

\* C9: once the move of a command has been answered with success, a listing
\* of the history shows the command right after the move, and no read of the
\* pending list, for any count and type filter, returns it again; a read of
\* the pending list when nothing is pending is answered 200 with an empty
\* list, not with an error.
C9_CompletedNotOfferedAgain ==
    /\ (resp.op = "move_to_history" /\ resp.code = 200)
         => resp.id \in IdsOf(read_first(All, "history", "").result)
    /\ \A count \in GoodCounts, command_type \in TypeFilters :
         LET answer == read_first(count, "new_commands", command_type)
         IN /\ answer.code = 200
            /\ IdsOf(answer.result) \cap moved = {}
            /\ PendingList = <<>> => answer.result = <<>>
    /\ (IsPendingRead(resp) /\ resp.op = "read_first")
         => IdsOf(resp.result) \cap moved = {}

C9_Witness ==
    /\ resp.op = "read_first"
    /\ resp.code = 200
    /\ resp.source = "new_commands"
    /\ resp.result = <<>>
    /\ added # {}
    /\ moved = added
    /\ HistoryIds = added

\* C10: after a restart the pending list read from the file holds exactly the
\* commands that were enqueued and not moved, in the order of their enqueue;
\* no other command is pending.
C10_RestartKeepsPending ==
    resp = Restarted
        => /\ PendingIds = added \ moved
           /\ Increasing(PendingList)
           /\ Len(PendingList) = Cardinality(added \ moved)

C10_Witness ==
    /\ resp = Restarted
    /\ Len(PendingList) >= 3
    /\ moved # {}

\* C11: a read (read_first, select_last) changes nothing: the file, the
\* pending list and the history it holds, the handlers in progress and the
\* record of answered requests are the same before and after the read,
\* whatever its count, source and type filter, accepted or rejected.
C11_ReadsChangeNothing ==
    [][(resp'.op \in {"read_first", "select_last"} /\ resp' # resp)
       => /\ file' = file
          /\ PendingList' = PendingList
          /\ HistoryList' = HistoryList
          /\ UNCHANGED <<pc, local, nextId, added, moved>>]_vars

C11_Witness ==
    /\ resp.op = "select_last"
    /\ resp.code = 200
    /\ resp.result # <<>>
    /\ resp.result[1] = PendingList[Len(PendingList)]
    /\ Len(PendingList) >= 2
    /\ HistoryList # <<>>

\* C13 (as claimed): eviction from the history is by age alone: a completed
\* command is listed at every time up to the retention window after its
\* move, whatever the number of commands moved after it, and is absent from
\* every listing once the window has passed.
C13_AgeExactEviction ==
    /\ [](\A i \in 1..Len(ListedHistory) :
            Age(ListedHistory[i], now) <= CompletedRetention)
    /\ [][\A i \in 1..Len(HistoryList) :
            Age(HistoryList[i], now') <= CompletedRetention
                => HistoryList[i].id \in IdsOf(ListedHistory')]_vars

\* C13 (amended): eviction from the history is by count, not by age: every
\* command of the history is listed at every age, the passage of time evicts
\* nothing, and a command leaves the history only in a step that moves
\* other commands into a history that cannot hold them all, which is left
\* with exactly MAX_HISTORY_SIZE commands; a move that is rejected evicts
\* nothing.
C13_CountEviction ==
    /\ [](IdSeq(ListedHistory) = IdSeq(HistoryList))
    /\ [][/\ now' # now => HistoryList' = HistoryList
          /\ resp'.code >= 400 => HistoryList' = HistoryList
          /\ \A id \in HistoryIds \ HistoryIds' :
               /\ resp'.op \in {"move_to_history", "move_commands_to_history"}
               /\ moved' # moved
               /\ id \notin moved' \ moved
               /\ Len(HistoryList) + Cardinality(moved' \ moved) > MAX_HISTORY_SIZE
               /\ Len(HistoryList') = MAX_HISTORY_SIZE]_vars

C13_Witness ==
    /\ resp.op = "read_first"
    /\ resp.source = "history"
    /\ resp.code = 200
    /\ Len(resp.result) = MAX_HISTORY_SIZE
    /\ \E i \in 1..Len(resp.result) : Age(resp.result[i], now) > CompletedRetention
    /\ \E i \in 1..Len(resp.result) : Age(resp.result[i], now) = 0
    /\ moved \ HistoryIds # {}

\* C14 (as claimed): a move_to_history with the id of a command that the
\* store holds, in the pending list or already in the history, is answered
\* with success; it is answered not-found only when no command has the id.
C14_CompleteAnyExisting ==
    [][(resp'.op = "move_to_history" /\ resp' # resp)
       => /\ resp'.id \in PendingIds \cup HistoryIds => resp'.code = 200
          /\ resp'.code = 404 => resp'.id \notin PendingIds \cup HistoryIds]_vars

\* C14 (amended): a move_to_history with the id of a pending command is
\* answered with success and the command becomes the first of the history;
\* with an id that no pending command has, the id of a command already in
\* the history included, it is answered 404 COMMAND_NOT_FOUND and changes
\* nothing: the history entry is not overwritten.
C14_CompleteOnlyPending ==
    [][(resp'.op = "move_to_history" /\ resp' # resp /\ resp'.id # 0)
       => /\ resp'.id \in PendingIds
            => /\ resp'.code = 200
               /\ HistoryList'[1] = [resp'.result[1] EXCEPT !.time_started = now]
               /\ resp'.id \notin PendingIds'
          /\ resp'.id \notin PendingIds
            => /\ resp'.code = 404
               /\ resp'.error = "COMMAND_NOT_FOUND"
               /\ UNCHANGED <<file, nextId, added, moved>>]_vars

C14_Witness ==
    /\ resp.op = "move_to_history"
    /\ resp.code = 404
    /\ resp.id \in HistoryIds
    /\ resp.id \in moved
    /\ PendingIds # {}

\* C15: from the empty store, after any sequence of add_command,
\* move_to_history and move_commands_to_history calls, the history in the
\* file, and every listing of it, holds at most MAX_HISTORY_SIZE commands.
C15_HistoryBounded ==
    /\ Len(file.data.history) <= MAX_HISTORY_SIZE
    /\ Len(HistoryList) <= MAX_HISTORY_SIZE
    /\ Len(read_first(All, "history", "").result) <= MAX_HISTORY_SIZE

C15_Witness ==
    /\ resp.op = "move_commands_to_history"
    /\ Len(HistoryList) = MAX_HISTORY_SIZE
    /\ Cardinality(moved) > MAX_HISTORY_SIZE
    /\ Cardinality(HistoryIds) = MAX_HISTORY_SIZE

\* C16: the history holds exactly the min(MAX_HISTORY_SIZE, n) commands that
\* were moved last: a command dropped from the history was moved no later
\* than every command that is kept, and the history is in the order of the
\* move times (time_started), latest first or earliest first.
C16_KeepsLatestMoved ==
    /\ [](/\ Len(HistoryList) =
               (IF Cardinality(moved) < MAX_HISTORY_SIZE
                THEN Cardinality(moved) ELSE MAX_HISTORY_SIZE)
          /\ \/ \A i, j \in 1..Len(HistoryList) :
                  i < j => HistoryList[i].time_started >= HistoryList[j].time_started
             \/ \A i, j \in 1..Len(HistoryList) :
                  i < j => HistoryList[i].time_started <= HistoryList[j].time_started)
    /\ [][\A i \in 1..Len(HistoryList) :
            HistoryList[i].id \notin HistoryIds'
                => \A j \in 1..Len(HistoryList') :
                     HistoryList[i].time_started <= HistoryList'[j].time_started]_vars

\* C17: in every reachable state, with add_command and move_to_history
\* requests running concurrently, no id is both in the pending list and in
\* the history, and a command whose move to the history was answered with
\* success is not in the pending list again.
C17_MovedNeverPendingAgain ==
    /\ PendingIds \cap HistoryIds = {}
    /\ PendingIds \cap moved = {}

\* C18: a command is moved to the history at most once: of the
\* move_to_history requests with one id, served one after the other or
\* concurrently, at most one is answered with success, and the history
\* never holds an id twice.
C18_MovedAtMostOnce ==
    /\ [](Cardinality(HistoryIds) = Len(HistoryList))
    /\ [][/\ (resp'.op = "move_to_history" /\ resp'.code = 200 /\ resp' # resp)
               => resp'.id \notin moved
          /\ \A w \in Workers :
               (pc[w] = "write" /\ pc'[w] = "idle" /\ local[w].op = "move_to_history")
                   => local[w].out.ids[1] \notin moved]_vars

\* C19: for every count >= 0 and every pending list, select_last_commands
\* returns the last min(count, length) commands of the list, in the order of
\* the list (none for count 0), and read_first_commands the first
\* min(count, length); with count 'all' both return the whole list.
C19_FirstAndLastCounts ==
    LET L == PendingList
        Min(n) == IF n < Len(L) THEN n ELSE Len(L)
    IN /\ select_last_commands(All) = L
       /\ read_first_commands(All) = L
       /\ \A count \in Counts :
            (count.kind = "int" /\ count.n >= 0)
                => /\ select_last_commands(count)
                        = SubSeq(L, Len(L) - Min(count.n) + 1, Len(L))
                   /\ read_first_commands(count) = SubSeq(L, 1, Min(count.n))

====
